---- MODULE Spec2Model ----
(***************************************************************************)
(* Model of the Grounded-Search Gateway (src/main.py): module start-up,    *)
(* the POST /search-news endpoint with its core function                   *)
(* generate_grounded_content, and the GET /callback endpoint.              *)
(*                                                                         *)
(* Python strings are modelled as sequences of tokens, so that an f-string *)
(* is a real concatenation: the empty string is << >>.  A Python value is  *)
(* a record [ty, v]: ty is "str", "none" (None), "int", or "raise" (a      *)
(* property whose read raises an exception with message v).                *)
(***************************************************************************)
EXTENDS Naturals, Sequences, FiniteSets

\* ---------------------------------------------------------------- bounds
NumReq == 2        \* POST /search-news requests the clients may send
MaxChunks == 2     \* grounding chunks in one provider response

Req == 1..NumReq

\* ---------------------------------------------------------------- values
PyStr(s) == [ty |-> "str", v |-> s]
PyNone == [ty |-> "none", v |-> << >>]
PyInt == [ty |-> "int", v |-> <<"42">>]
PyRaise(msg) == [ty |-> "raise", v |-> msg]

\* bool(x) of a Python str-or-None value: None and "" are falsy.
Truthy(x) == x.ty = "str" /\ x.v # << >>

\* s occurs in t as a contiguous substring.
Includes(t, s) ==
    \E i \in 0..(Len(t) - Len(s)) : SubSeq(t, i + 1, i + Len(s)) = s

\* ------------------------------------------------------- inputs (clients)
Keywords == {<< >>, <<"ai">>}

\* JSON bodies a client may post: keyword a string, absent, or a non-string.
Bodies ==
    {[has |-> TRUE, keyword |-> PyStr(k)] : k \in Keywords}
    \cup {[has |-> FALSE, keyword |-> PyNone], [has |-> TRUE, keyword |-> PyInt]}

\* Values of os.environ.get("GEMINI_API_KEY") after load_dotenv().
EnvValues == {PyNone, PyStr(<< >>), PyStr(<<"key">>)}

\* ------------------------------------------------------ start-up (12-30)
KeyUnsetOnly(k) == k.ty = "none"
\* `if not GEMINI_API_KEY`
KeyMissing(k) == ~Truthy(k)

\* ------------------------------------------------- request model (33-35)
AcceptAnyBody(b) == TRUE
\* PromptRequest: keyword is required and must be a str.
ValidBody(b) == b.has /\ b.keyword.ty = "str"

\* ------------------------------------------------ core function (50-99)
PromptHead == "prompt-head"
PromptTail == "prompt-tail"
DetailPrefix == "Gemini API error: "

\* prompt = f"...{keyword}..." (lines 55-58)
Prompt(keyword) == <<PromptHead>> \o keyword \o <<PromptTail>>

DetailNoMsg(e) == <<DetailPrefix>>
\* detail = f"Gemini API ...: {e}" (line 98)
Detail(e) == <<DetailPrefix>> \o e


\* ----------------------------------------- provider (the call at 69-73)
\* The keyword the prompt embeds, as the provider reads it back.
KeywordOf(p) == SubSeq(p, 2, Len(p) - 1)

NoWebChunk == [web |-> FALSE, uri |-> PyNone, title |-> PyNone]
WebChunk(u, t) == [web |-> TRUE, uri |-> u, title |-> t]

\* The pages the search tool finds for a keyword: their URIs carry the keyword.
Uri(n, kw) == <<n>> \o kw
W1(kw) == WebChunk(PyStr(Uri("u1", kw)), PyStr(<<"t1">>))
W2(kw) == WebChunk(PyStr(Uri("u2", kw)), PyStr(<<"t2">>))

\* grounding_chunks[] elements: web is optional, and so are web.uri, web.title.
ChunkKinds(kw) ==
    {NoWebChunk, W1(kw), W2(kw),
     WebChunk(PyStr(Uri("u1", kw)), PyNone),
     WebChunk(PyNone, PyStr(<<"t2">>))}

SeqsUpTo(S, n) == UNION {[1..m -> S] : m \in 0..n}

\* response.text: a string, the empty string, None (no text part), or a
\* property read that raises.
Texts == {PyStr(<<"news">>), PyStr(<< >>), PyNone, PyRaise(<<"ValueError">>)}

Res(t, c, m, ch) == [text |-> t, hasCand |-> c, hasMeta |-> m, chunks |-> ch]
NoRes == Res(PyNone, FALSE, FALSE, << >>)

\* Every response object the provider may return for a prompt.  chunks = << >>
\* stands for grounding_chunks being None or [] (both falsy at line 81).
Results(p) ==
    {Res(t, FALSE, FALSE, << >>) : t \in Texts}
    \cup {Res(t, TRUE, FALSE, << >>) : t \in Texts}
    \cup {Res(t, TRUE, TRUE, ch) :
            t \in Texts, ch \in SeqsUpTo(ChunkKinds(KeywordOf(p)), MaxChunks)}

\* The well-formed responses among them: text present, every chunk a citation.
PlainResults(p) ==
    {Res(PyStr(<<"news">>), FALSE, FALSE, << >>)}
    \cup {Res(PyStr(<<"news">>), TRUE, TRUE, [i \in 1..m |-> W1(KeywordOf(p))]) :
            m \in 0..MaxChunks}

\* Messages of the exceptions generate_content may raise.
Errors == {<<"timeout">>, <<"quota", "exceeded">>}
PlainErrors == {<<"timeout">>}

Result(x) == [kind |-> "result", res |-> x, msg |-> << >>]
Raised(e) == [kind |-> "raise", res |-> NoRes, msg |-> e]
NoOutcome == [kind |-> "none", res |-> NoRes, msg |-> << >>]

\* ------------------------------------------------ core function (50-99)
\* All earlier lists concatenated: a module-level accumulator.
RECURSIVE Flatten(_, _)
Flatten(lists, n) == IF n = 0 THEN << >> ELSE Flatten(lists, n - 1) \o lists[n]
SharedSourceList(lists, r) == Flatten(lists, NumReq)
\* source_list = [] (line 76)
NewSourceList(lists, r) == << >>

\* for chunk in metadata.grounding_chunks: if chunk.web: append (82-88)
RECURSIVE WalkChunks(_, _)
WalkChunks(chunks, acc) ==
    IF chunks = << >> THEN acc
    ELSE LET chunk == Head(chunks) IN
         WalkChunks(Tail(chunks),
                    IF chunk.web
                    THEN Append(acc, [uri |-> chunk.uri, title |-> chunk.title])
                    ELSE acc)

\* lines 79-88
Citations(x, start) ==
    IF x.hasCand /\ x.hasMeta /\ x.chunks # << >>
    THEN WalkChunks(x.chunks, start)
    ELSE start

NoValue == [response |-> PyNone, source |-> << >>]
Return(v, sl) == [kind |-> "return", value |-> v, detail |-> << >>, list |-> sl]
RaiseHTTP(d, sl) == [kind |-> "http500", value |-> NoValue, detail |-> d, list |-> sl]

\* The try block covering only the call: a failed read of .text yields the
\* sources gathered so far with an empty text.
generate_partial(out, start) ==
    IF out.kind = "raise" THEN RaiseHTTP(Detail(out.msg), start)
    ELSE LET sl == Citations(out.res, start) IN
         IF out.res.text.ty = "raise"
         THEN Return([response |-> PyStr(<< >>), source |-> sl], sl)
         ELSE Return([response |-> out.res.text, source |-> sl], sl)

\* generate_grounded_content from the provider's outcome on (68-99): what the
\* call returns or raises, and the source_list it built.
generate_grounded_content(out, start) ==
    IF out.kind = "raise" THEN RaiseHTTP(Detail(out.msg), start)
    ELSE LET sl == Citations(out.res, start) IN
         IF out.res.text.ty = "raise"
         THEN RaiseHTTP(Detail(out.res.text.v), sl)
         ELSE Return([response |-> out.res.text, source |-> sl], sl)

\* ------------------------------------------ response model (38-46, 103)
\* SearchResponse: response is a str, source a list of {uri: str, title: str}.
Conforms(v) ==
    /\ v.response.ty = "str"
    /\ \A i \in 1..Len(v.source) :
          v.source[i].uri.ty = "str" /\ v.source[i].title.ty = "str"

NoResp == [status |-> 0, body |-> [pending |-> TRUE]]

\* What the framework sends for the endpoint's result: an HTTPException as its
\* status and detail, a returned dict after validation against response_model.
Respond(h) ==
    IF h.kind = "http500" THEN [status |-> 500, body |-> [detail |-> h.detail]]
    ELSE IF Conforms(h.value) THEN [status |-> 200, body |-> h.value]
    ELSE [status |-> 500, body |-> [error |-> "Internal Server Error"]]

Unprocessable == [status |-> 422, body |-> [detail |-> <<"validation">>]]

\* GET /callback (112-114)
read_root_down == [status |-> "DOWN"]
read_root == [status |-> "OK"]


\* ------------------------------------------------------------------ state
VARIABLES
    env,          \* GEMINI_API_KEY as read at line 12
    boot,         \* position of the module's top-level code
    pc,           \* per request: idle, received, calling, responded
    body,         \* per request: the JSON body posted
    prompt,       \* per request: the prompt built at 55-58 (<< >>: none yet)
    outcome,      \* per request: what generate_content returned or raised
    source_list,  \* per request: the list object of line 76
    resp,         \* per request: the HTTP response sent
    calls,        \* per request: generate_content calls made
    loop,         \* the request whose coroutine holds the event loop (0: none)
    cb,           \* GET /callback: idle, pool, ran, sent
    cbResp        \* the HTTP response of GET /callback

vars == <<env, boot, pc, body, prompt, outcome, source_list, resp, calls,
          loop, cb, cbResp>>

reqVars == <<pc, body, prompt, outcome, source_list, resp, calls, loop>>

Init ==
    /\ env \in EnvValues
    /\ boot = "start"
    /\ pc = [r \in Req |-> "idle"]
    /\ body = [r \in Req |-> [has |-> FALSE, keyword |-> PyNone]]
    /\ prompt = [r \in Req |-> << >>]
    /\ outcome = [r \in Req |-> NoOutcome]
    /\ source_list = [r \in Req |-> << >>]
    /\ resp = [r \in Req |-> NoResp]
    /\ calls = [r \in Req |-> 0]
    /\ loop = 0
    /\ cb = "idle"
    /\ cbResp = NoResp

\* ------------------------------------------------------ start-up (12-30)
\* lines 12-16: a missing key raises ValueError and the import fails.
CheckKey ==
    /\ boot = "start"
    /\ boot' = IF KeyMissing(env) THEN "fatal_key" ELSE "client"
    /\ UNCHANGED <<env, cb, cbResp>> /\ UNCHANGED reqVars

\* lines 20-23: genai.Client(...) returns, or raises and RuntimeError follows.
MakeClient ==
    /\ boot = "client"
    /\ \E ok \in BOOLEAN : boot' = IF ok THEN "app" ELSE "fatal_client"
    /\ UNCHANGED <<env, cb, cbResp>> /\ UNCHANGED reqVars

\* lines 26-30 and the route decorators: the application exists and serves.
CreateApp ==
    /\ boot = "app"
    /\ boot' = "serving"
    /\ UNCHANGED <<env, cb, cbResp>> /\ UNCHANGED reqVars

\* ------------------------------------------------ POST /search-news
\* A client posts body b.
Receive(r, b) ==
    /\ boot = "serving"
    /\ pc[r] = "idle"
    /\ pc' = [pc EXCEPT ![r] = "received"]
    /\ body' = [body EXCEPT ![r] = b]
    /\ UNCHANGED <<env, boot, prompt, outcome, source_list, resp, calls, loop,
                   cb, cbResp>>

LoopAlwaysFree(l) == TRUE
\* search_news_api is a coroutine and read_root is dispatched by the loop: the
\* loop starts one only when no coroutine is running on it (line 104, 109).
LoopFree(l) == l = 0

\* The body fails PromptRequest: 422, search_news_api is not called.
RejectBody(r) ==
    /\ boot = "serving"
    /\ pc[r] = "received"
    /\ LoopFree(loop)
    /\ ~ValidBody(body[r])
    /\ pc' = [pc EXCEPT ![r] = "responded"]
    /\ resp' = [resp EXCEPT ![r] = Unprocessable]
    /\ UNCHANGED <<env, boot, body, prompt, outcome, source_list, calls, loop,
                   cb, cbResp>>

\* search_news_api -> generate_grounded_content up to the blocking call
\* client.models.generate_content (lines 109, 55-73).
CallProvider(r) ==
    /\ boot = "serving"
    /\ pc[r] = "received"
    /\ LoopFree(loop)
    /\ ValidBody(body[r])
    /\ pc' = [pc EXCEPT ![r] = "calling"]
    /\ prompt' = [prompt EXCEPT ![r] = Prompt(body[r].keyword.v)]
    /\ calls' = [calls EXCEPT ![r] = @ + 1]
    /\ loop' = r
    /\ UNCHANGED <<env, boot, body, outcome, source_list, resp, cb, cbResp>>

\* The rest of the handler once the provider's outcome out is known (74-99,
\* 110) and the framework's reply.
Finish(r, out) ==
    LET h == generate_grounded_content(out, NewSourceList(source_list, r)) IN
    /\ outcome' = [outcome EXCEPT ![r] = out]
    /\ source_list' = [source_list EXCEPT ![r] = h.list]
    /\ resp' = [resp EXCEPT ![r] = Respond(h)]
    /\ pc' = [pc EXCEPT ![r] = "responded"]
    /\ loop' = 0
    /\ UNCHANGED <<env, boot, body, prompt, calls, cb, cbResp>>

\* generate_content returns response object x.
ProviderReturn(r, x) ==
    /\ pc[r] = "calling"
    /\ Finish(r, Result(x))

\* A failed call is issued again.
ProviderRaiseRetry(r, e) ==
    /\ pc[r] = "calling"
    /\ calls[r] < 3
    /\ calls' = [calls EXCEPT ![r] = @ + 1]
    /\ UNCHANGED <<env, boot, pc, body, prompt, outcome, source_list, resp,
                   loop, cb, cbResp>>

\* generate_content raises an exception with message e.
ProviderRaise(r, e) ==
    /\ pc[r] = "calling"
    /\ Finish(r, Raised(e))

\* ------------------------------------------------ GET /callback
\* The loop hands read_root (a plain def) to the thread pool.
CallbackDispatch ==
    /\ boot = "serving"
    /\ cb = "idle"
    /\ LoopFree(loop)
    /\ cb' = "pool"
    /\ UNCHANGED <<env, boot, cbResp>> /\ UNCHANGED reqVars

\* read_root runs on a pool thread (112-114).
CallbackRun ==
    /\ cb = "pool"
    /\ cbResp' = [status |-> 200, body |-> read_root]
    /\ cb' = "ran"
    /\ UNCHANGED <<env, boot>> /\ UNCHANGED reqVars

\* The loop sends the response.
CallbackSend ==
    /\ cb = "ran"
    /\ LoopFree(loop)
    /\ cb' = "sent"
    /\ UNCHANGED <<env, boot, cbResp>> /\ UNCHANGED reqVars

\* ---------------------------------------------------------- specifications
\* NumReq clients, well-formed provider responses.
Next ==
    \/ CheckKey
    \/ MakeClient
    \/ CreateApp
    \/ \E r \in Req, b \in Bodies : Receive(r, b)
    \/ \E r \in Req : RejectBody(r)
    \/ \E r \in Req : CallProvider(r)
    \/ \E r \in Req : \E x \in PlainResults(prompt[r]) : ProviderReturn(r, x)
    \/ \E r \in Req : \E e \in PlainErrors : ProviderRaise(r, e)
    \/ CallbackDispatch
    \/ CallbackRun
    \/ CallbackSend

Spec == Init /\ [][Next]_vars

\* One client, every provider response.
NextOne ==
    \/ CheckKey
    \/ MakeClient
    \/ CreateApp
    \/ \E b \in Bodies : Receive(1, b)
    \/ RejectBody(1)
    \/ CallProvider(1)
    \/ \E x \in Results(prompt[1]) : ProviderReturn(1, x)
    \/ \E e \in Errors : ProviderRaise(1, e)
    \/ CallbackDispatch
    \/ CallbackRun
    \/ CallbackSend

SpecOne == Init /\ [][NextOne]_vars

\* ------------------------------------------------------------- properties
Done(r) == pc[r] = "responded"

\* The provider call of request r succeeded: it returned a response object
\* whose text can be read.
Succeeded(r) ==
    Done(r) /\ outcome[r].kind = "result" /\ outcome[r].res.text.ty # "raise"

Cite(chunk) == [uri |-> chunk.uri, title |-> chunk.title]
IsWeb(chunk) == chunk.web
CiteAll(chunks) == [i \in 1..Len(chunks) |-> Cite(chunks[i])]

\* The citations a response object exposes, in the provider's order.
ExpectedSources(x) ==
    IF x.hasCand /\ x.hasMeta THEN CiteAll(SelectSeq(x.chunks, IsWeb)) ELSE << >>

\* C1: for every request whose provider call succeeds, the returned `response`
\* equals the provider's text and the returned `source` is exactly the
\* {uri, title} pairs of the chunks of candidates[0] that expose a web
\* citation, in the provider's order (empty when there are none).
C1_ReturnsTextAndSources ==
    \A r \in Req :
        Succeeded(r) =>
            /\ resp[r].status = 200
            /\ "response" \in DOMAIN resp[r].body
            /\ resp[r].body.response = outcome[r].res.text
            /\ resp[r].body.source = ExpectedSources(outcome[r].res)

\* C2: if the provider call raises, the endpoint answers 500 with a `detail`
\* that includes the error's message, and never 200.
C2_ProviderErrorIs500 ==
    \A r \in Req :
        (Done(r) /\ outcome[r].kind = "raise") =>
            /\ resp[r].status = 500
            /\ resp[r].status # 200
            /\ DOMAIN resp[r].body = {"detail"}
            /\ Includes(resp[r].body.detail, outcome[r].msg)

C2_Witness ==
    \E r \in Req :
        Done(r) /\ outcome[r].kind = "raise" /\ Len(outcome[r].msg) = 2

\* C3: every response to a request whose provider call succeeded has a
\* `response` field that is a string and a `source` field that is a list of
\* entries with string uri and string title, whatever the provider returned.
C3_ResponseIsWellTyped ==
    \A r \in Req :
        Succeeded(r) =>
            /\ {"response", "source"} \subseteq DOMAIN resp[r].body
            /\ resp[r].body.response.ty = "str"
            /\ \A i \in 1..Len(resp[r].body.source) :
                  /\ resp[r].body.source[i].uri.ty = "str"
                  /\ resp[r].body.source[i].title.ty = "str"

\* C4: under every interleaving of the requests, the `source` list a request
\* returns holds only citations of the provider response to its own prompt:
\* each is a citation of one of that response's chunks and carries the
\* request's own keyword.
C4_NoCrossContamination ==
    \A r \in Req :
        (Done(r) /\ resp[r].status = 200) =>
            \A i \in 1..Len(resp[r].body.source) :
                /\ \E j \in 1..Len(outcome[r].res.chunks) :
                      resp[r].body.source[i] = Cite(outcome[r].res.chunks[j])
                /\ Tail(resp[r].body.source[i].uri.v) = body[r].keyword.v

C4_Witness ==
    \E r, q \in Req :
        /\ Done(r) /\ Done(q)
        /\ body[r].keyword # body[q].keyword
        /\ resp[r].status = 200 /\ resp[q].status = 200
        /\ resp[r].body.source # << >> /\ resp[q].body.source # << >>

Malformed(b) == ~b.has \/ b.keyword.ty # "str"

\* C5: a request whose body lacks keyword, or has a keyword that is not a
\* string, is answered 422 without the core logic running: no prompt is built
\* and no provider call is made for it.
C5_MalformedIs422 ==
    \A r \in Req :
        (pc[r] # "idle" /\ Malformed(body[r])) =>
            /\ pc[r] # "calling"
            /\ prompt[r] = << >>
            /\ calls[r] = 0
            /\ outcome[r] = NoOutcome
            /\ Done(r) => resp[r] = Unprocessable

C5_Witness ==
    /\ \E r \in Req : Done(r) /\ ~body[r].has
    /\ \E r \in Req : Done(r) /\ body[r].keyword.ty = "int"

KeyAbsent == env.ty = "none" \/ env.v = << >>
Aborted == boot \in {"fatal_key", "fatal_client"}
NothingServed ==
    /\ boot # "serving"
    /\ \A r \in Req : pc[r] = "idle" /\ calls[r] = 0 /\ resp[r] = NoResp
    /\ cb = "idle" /\ cbResp = NoResp

\* C6: if the credential is unset or empty, or the client cannot be built,
\* start-up aborts before the application is created: the process stays
\* aborted, serves no request and makes no provider call.
C6_StartupIsFatal ==
    /\ []((KeyAbsent \/ Aborted) => NothingServed)
    /\ []((KeyAbsent /\ boot # "start") => boot = "fatal_key")
    /\ [][Aborted => boot' = boot]_vars

C6_Witness == env = PyStr(<< >>) /\ boot = "fatal_key"

\* C7: whatever the state of the /search-news requests, GET /callback is
\* answered 200 with {"status": "OK"}, and handling it makes no provider call
\* and touches no request.
C7_CallbackIsOK ==
    /\ [](cb \in {"ran", "sent"} =>
            cbResp = [status |-> 200, body |-> [status |-> "OK"]])
    /\ [][cb' # cb => UNCHANGED reqVars]_vars

C7_Witness ==
    /\ cb = "ran"
    /\ \E r \in Req : pc[r] = "calling"
    /\ \E r \in Req : Done(r) /\ resp[r].status = 500

\* C8: a request that passes validation, the empty keyword included, makes
\* exactly one provider call: none before the handler runs, one while the call
\* is in flight, and still one after it has returned or failed.
C8_ExactlyOneCall ==
    \A r \in Req :
        /\ calls[r] <= 1
        /\ pc[r] \in {"idle", "received"} => calls[r] = 0
        /\ pc[r] = "calling" => calls[r] = 1
        /\ (Done(r) /\ ~Malformed(body[r])) =>
              calls[r] = 1 /\ outcome[r].kind # "none"

C8_Witness ==
    \E r \in Req :
        /\ Done(r) /\ body[r].keyword = PyStr(<< >>) /\ body[r].has
        /\ outcome[r].kind = "raise" /\ calls[r] = 1

\* The message of the failure inside the handler of request r.
Failure(r) ==
    IF outcome[r].kind = "raise" THEN outcome[r].msg ELSE outcome[r].res.text.v
Failed(r) ==
    /\ Done(r)
    /\ \/ outcome[r].kind = "raise"
       \/ outcome[r].kind = "result" /\ outcome[r].res.text.ty = "raise"

\* C9: a failure inside the handler, raised by the provider call or raised
\* while reading the response after sources were appended, is answered 500
\* with the original message and with no partial result: no text, no sources.
C9_NoPartialResult ==
    \A r \in Req :
        Failed(r) =>
            /\ resp[r].status = 500
            /\ DOMAIN resp[r].body = {"detail"}
            /\ resp[r].body.detail = <<DetailPrefix>> \o Failure(r)

C9_Witness ==
    \E r \in Req :
        /\ Done(r) /\ outcome[r].kind = "result"
        /\ outcome[r].res.text.ty = "raise"
        /\ Len(source_list[r]) = 2
        /\ resp[r].status = 500

InFlight == {r \in Req : pc[r] = "calling"}

\* C10: provider calls of different requests never overlap: at most one is in
\* flight, it is the one holding the event loop, and no handler starts while
\* it is.
C10_CallsNeverOverlap ==
    /\ [](Cardinality(InFlight) <= 1)
    /\ [](InFlight = IF loop = 0 THEN {} ELSE {loop})
    /\ [][\A r \in Req :
            (pc[r] = "received" /\ pc'[r] # "received") => InFlight = {}]_vars

C10_Witness ==
    /\ pc[1] = "calling"
    /\ pc[2] = "received" /\ ~Malformed(body[2])

====
